---------------------------- MODULE Spec2Model ----------------------------
(***************************************************************************)
(* A model of function-inline-loader: the %inline macro expander.          *)
(*                                                                         *)
(*   src/js-inline-loader.js        the iterative re-parse driver          *)
(*   src/function-inline-loader.js  the single-sweep regex driver          *)
(*                                                                         *)
(* Syntax trees are the parser's objects: a node is a type tag and the     *)
(* ordered list of its other keys, each key holding a scalar, a node,      *)
(* null, an array of nodes or an array of numbers (a range).  Source text  *)
(* is a sequence of lexical tokens.                                        *)
(***************************************************************************)
EXTENDS Integers, Sequences, FiniteSets, TLC

VARIABLES
  driver,     \* which exported transform runs: "iterative" or "sweep"
  pc,         \* position of the run
  input,      \* the source text handed to the transform
  source,     \* the text being rewritten / the text returned
  errors,     \* the diagnostics passed to this.emitError, in order
  deps,       \* the paths passed to this.addDependency
  pass,       \* iterative driver: parity of the passes of the loop that spliced
  module,     \* export walk: the top-level statements of the module tree
  stmt,       \* export walk: index of the next top-level statement
  prop,       \* export walk: index of the next export-bag property
  scopeFunctions, \* export walk: the table under construction
  exportedFunc,   \* export walk: the returned table
  fnAst,      \* substitution: the function tree being rewritten
  fnArgs,     \* substitution: the argument trees
  argIdx,     \* substitution: the loop counter i of the argument loop
  prevAst     \* substitution: fnAst before the last replaceIdentifier call

vars == <<driver, pc, input, source, errors, deps, pass, module, stmt, prop,
          scopeFunctions, exportedFunc, fnAst, fnArgs, argIdx, prevAst>>

driverVars == <<driver, input, source, errors, deps, pass>>
walkVars   == <<module, stmt, prop, scopeFunctions, exportedFunc>>
substVars  == <<fnAst, fnArgs, argIdx, prevAst>>

(***************************************************************************)
(* Syntax trees                                                            *)
(***************************************************************************)
UNDEFINED == "<undefined>"

Node(type, props) == [type |-> type, props |-> props]

Scalar(key, val)   == [key |-> key, kind |-> "scalar",  val |-> val, nodes |-> <<>>, nums |-> <<>>]
Object(key, node)  == [key |-> key, kind |-> "object",  val |-> "",  nodes |-> <<node>>, nums |-> <<>>]
Null(key)          == [key |-> key, kind |-> "null",    val |-> "",  nodes |-> <<>>, nums |-> <<>>]
Array(key, nodes)  == [key |-> key, kind |-> "array",   val |-> "",  nodes |-> nodes, nums |-> <<>>]
Numbers(key, nums) == [key |-> key, kind |-> "numbers", val |-> "",  nodes |-> <<>>, nums |-> nums]

\* {} : an object with no keys
EmptyObject == Node(UNDEFINED, <<>>)

HasKey(n, key) == \E i \in DOMAIN n.props : n.props[i].key = key
PropOf(n, key) == n.props[CHOOSE i \in DOMAIN n.props : n.props[i].key = key]

\* n[key] is a node
IsObject(n, key) == HasKey(n, key) /\ PropOf(n, key).kind = "object"
\* Array.isArray(n[key])
IsArray(n, key)  == HasKey(n, key) /\ PropOf(n, key).kind \in {"array", "numbers"}
\* n[key] for a key holding a node; n[key] for a key holding an array of nodes
Get(n, key)  == PropOf(n, key).nodes[1]
List(n, key) == PropOf(n, key).nodes
\* n[key] for a scalar key; undefined when the key is absent
Val(n, key)  == IF HasKey(n, key) /\ PropOf(n, key).kind = "scalar"
                THEN PropOf(n, key).val ELSE UNDEFINED
\* n[key].type, undefined when n[key] is no node
TypeAt(n, key) == IF IsObject(n, key) THEN Get(n, key).type ELSE UNDEFINED
\* n[key].name, undefined when n[key] has no name
NameAt(n, key) == IF IsObject(n, key) THEN Val(Get(n, key), "name") ELSE UNDEFINED

Identifier(name) == Node("Identifier", <<Scalar("name", name)>>)
Literal(value)   == Node("Literal", <<Scalar("value", value)>>)
BinaryExpression(l, r) ==
  Node("BinaryExpression", <<Scalar("operator", "+"), Object("left", l), Object("right", r)>>)
AssignmentExpression(l, r) ==
  Node("AssignmentExpression", <<Scalar("operator", "="), Object("left", l), Object("right", r)>>)
CallExpression(callee, args) ==
  Node("CallExpression", <<Object("callee", callee), Array("arguments", args)>>)
MemberExpression(obj, property) ==
  Node("MemberExpression", <<Object("object", obj), Object("property", property)>>)
ExpressionStatement(e) == Node("ExpressionStatement", <<Object("expression", e)>>)
ReturnStatement(e)     == Node("ReturnStatement", <<Object("argument", e)>>)
EmptyStatement         == Node("EmptyStatement", <<>>)
VariableDeclarator(name, init) ==
  Node("VariableDeclarator", <<Object("id", Identifier(name)), init>>)
VariableDeclaration(decls) ==
  Node("VariableDeclaration", <<Array("declarations", decls), Scalar("kind", "var")>>)
Var(name, e) == VariableDeclaration(<<VariableDeclarator(name, Object("init", e))>>)
BlockStatement(stmts) == Node("BlockStatement", <<Array("body", stmts)>>)
ForStatement(init, body) ==
  Node("ForStatement", <<init, Null("test"), Null("update"), Object("body", body)>>)
Program(stmts) == Node("Program", <<Array("body", stmts), Scalar("sourceType", "module")>>)
Function(type, name, params, stmts) ==
  Node(type, <<IF name = "" THEN Null("id") ELSE Object("id", Identifier(name)),
               Array("params", [i \in DOMAIN params |-> Identifier(params[i])]),
               Object("body", BlockStatement(stmts))>>)
FunctionDeclaration(name, params, stmts) == Function("FunctionDeclaration", name, params, stmts)
FunctionExpression(params, stmts)        == Function("FunctionExpression", "", params, stmts)
ExportNamedDeclaration(declaration) ==
  Node("ExportNamedDeclaration", <<declaration, Array("specifiers", <<>>)>>)
ExportDefaultDeclaration(declaration) ==
  Node("ExportDefaultDeclaration", <<Object("declaration", declaration)>>)
MethodDefinition(name, static, value) ==
  Node("MethodDefinition",
       <<Object("key", Identifier(name)), Object("value", value), Scalar("static", static)>>)
ClassDeclaration(members) ==
  Node("ClassDeclaration",
       <<Null("id"), Object("body", Node("ClassBody", <<Array("body", members)>>))>>)
Property(key, value) ==
  Node("Property", <<Object("key", Identifier(key)), Object("value", value)>>)
ObjectExpression(properties) == Node("ObjectExpression", <<Array("properties", properties)>>)
ArrayExpression(elements) == Node("ArrayExpression", <<Array("elements", elements)>>)
\* null as an element of an array: the hole of [a, , b]
Hole == Node("null", <<>>)

\* a local variable: `value` is computed once, and Do is what the code goes
\* on to do with it
With(value, Do(_)) == CHOOSE result \in {Do(v) : v \in {value}} : TRUE

(***************************************************************************)
(* replaceIdentifier                                                       *)
(***************************************************************************)
\* some declarator of the declaration node declares `name`
Declares(decl, name) ==
  \E k \in DOMAIN List(decl, "declarations") :
      NameAt(List(decl, "declarations")[k], "id") = name

\* isShadowed without the test of the for statements
isShadowedByVar(name, body) ==
  \E k \in DOMAIN body :
     body[k].type = "VariableDeclaration" /\ Declares(body[k], name)

\* the forEach over inAst.body that sets isShadowed
isShadowed(name, body) ==
  \E k \in DOMAIN body :
     \/ body[k].type = "VariableDeclaration" /\ Declares(body[k], name)
     \/ /\ body[k].type = "ForStatement"
        /\ IsObject(body[k], "init")
        /\ TypeAt(body[k], "init") = "VariableDeclaration"
        /\ Declares(Get(body[k], "init"), name)

RECURSIVE replaceThrows(_, _)
\* the call raises a TypeError: it reaches a null element of an array, and
\* reads inAst.type of it
replaceThrows(name, inAst) ==
  IF inAst = Hole THEN TRUE
  ELSE IF inAst.type = "Identifier" /\ Val(inAst, "name") = name THEN FALSE
  ELSE IF /\ HasKey(inAst, "body") /\ PropOf(inAst, "body").kind = "array"
          /\ isShadowed(name, List(inAst, "body"))
  THEN FALSE
  ELSE \E i \in DOMAIN inAst.props :
          /\ inAst.props[i].kind \in {"array", "object"}
          /\ \E j \in DOMAIN inAst.props[i].nodes :
                replaceThrows(name, inAst.props[i].nodes[j])

RECURSIVE replaceIdentifier(_, _, _)
\* the tree returned, when the call returns
replaceIdentifier(name, withAst, inAst) ==
  IF inAst.type = "Identifier" /\ Val(inAst, "name") = name
  THEN withAst
  ELSE IF /\ HasKey(inAst, "body") /\ PropOf(inAst, "body").kind = "array"
          /\ isShadowed(name, List(inAst, "body"))
  THEN inAst
  ELSE [type  |-> inAst.type,
        props |-> [i \in DOMAIN inAst.props |->
           LET value == inAst.props[i] IN
           CASE value.kind = "array" ->
                  [value EXCEPT !.nodes = [j \in DOMAIN value.nodes |->
                                   replaceIdentifier(name, withAst, value.nodes[j])]]
             [] value.kind = "numbers" ->
                  \* a number has no keys: it maps to {}
                  [value EXCEPT !.kind = "array", !.nums = <<>>,
                                !.nodes = [j \in DOMAIN value.nums |-> EmptyObject]]
             [] value.kind = "object" ->
                  [value EXCEPT !.nodes = <<replaceIdentifier(name, withAst, value.nodes[1])>>]
             [] OTHER -> value]]

(***************************************************************************)
(* getExportedFunctions                                                    *)
(***************************************************************************)
\* scopeFunctions[name] = entry
Put(scope, name, entry) == (name :> entry) @@ scope

Entry(exported, ast) == [exported |-> exported, ast |-> ast]

\* the condition of the CommonJs branch: module.exports = { ... }
IsExportBag(node) ==
  /\ node.type = "ExpressionStatement"
  /\ TypeAt(Get(node, "expression"), "left") = "MemberExpression"
  /\ NameAt(Get(Get(node, "expression"), "left"), "object") = "module"
  /\ NameAt(Get(Get(node, "expression"), "left"), "property") = "exports"
  /\ TypeAt(Get(node, "expression"), "right") = "ObjectExpression"

BagProperties(node) == List(Get(Get(node, "expression"), "right"), "properties")

\* scopeFunctions is a plain object ({}): a name of Object.prototype reads as
\* defined in it without being a key of it
Inherited == {"toString"}

\* undefined, where a tree is expected
NoAst == Node("undefined", <<>>)

\* scopeFunctions[name].ast
AstOf(scope, name) == IF name \in DOMAIN scope THEN scope[name].ast ELSE NoAst

\* a forEach callback that, on a reference under another key, marks the
\* referenced entry as well
bagPropertyMarking(scope, node) ==
  LET name == NameAt(node, "key")
      ref  == NameAt(node, "value")
  IN IF TypeAt(node, "value") = "Identifier" /\ ref \in DOMAIN scope
     THEN Put([scope EXCEPT ![ref].exported = TRUE], name, Entry(TRUE, scope[ref].ast))
     ELSE IF TypeAt(node, "value") = "FunctionExpression"
          THEN Put(scope, name, Entry(TRUE, Get(node, "value")))
          ELSE scope

\* the callback of node.expression.right.properties.forEach
bagProperty(scope, node) ==
  LET name  == NameAt(node, "key")
      value == Get(node, "value")
  IN IF value.type = "Identifier" /\ Val(value, "name") \in DOMAIN scope \cup Inherited
     THEN IF name = Val(value, "name")
          THEN IF name \in DOMAIN scope
               THEN [scope EXCEPT ![name].exported = TRUE]
               ELSE scope   \* the flag is set on the inherited function
          ELSE Put(scope, name, Entry(TRUE, AstOf(scope, Val(value, "name"))))
     ELSE IF value.type = "FunctionExpression"
          THEN Put(scope, name, Entry(TRUE, value))
          ELSE scope

RECURSIVE bagProperties(_, _, _)
bagProperties(scope, properties, k) ==
  IF k > Len(properties) THEN scope
  ELSE With(bagProperty(scope, properties[k]),
            LAMBDA next : bagProperties(next, properties, k + 1))

\* the callback of node.declarations.forEach
declarator(scope, node) ==
  IF TypeAt(node, "init") = "FunctionExpression"
  THEN Put(scope, NameAt(node, "id"), Entry(FALSE, Get(node, "init")))
  ELSE scope

RECURSIVE declarators(_, _, _)
declarators(scope, declarations, k) ==
  IF k > Len(declarations) THEN scope
  ELSE With(declarator(scope, declarations[k]),
            LAMBDA next : declarators(next, declarations, k + 1))

\* a forEach callback that records the method definition, not its function
classMemberNode(scope, node) ==
  IF node.type = "MethodDefinition" /\ Val(node, "static") = "true"
  THEN Put(scope, NameAt(node, "key"), Entry(TRUE, node))
  ELSE scope

\* the callback of node.declaration.body.body.forEach
classMember(scope, node) ==
  IF node.type = "MethodDefinition" /\ Val(node, "static") = "true"
  THEN Put(scope, NameAt(node, "key"), Entry(TRUE, Get(node, "value")))
  ELSE scope

RECURSIVE classMembers(_, _, _)
classMembers(scope, members, k) ==
  IF k > Len(members) THEN scope
  ELSE With(classMember(scope, members[k]),
            LAMBDA next : classMembers(next, members, k + 1))

\* the property reads of the reduce callback that raise a TypeError:
\* node.declaration.type on `export { a }`, node.init.type on `var a;`,
\* node.expression.left.type on a statement that is no assignment
NodeThrows(node) ==
  \/ node.type = "ExportNamedDeclaration" /\ ~IsObject(node, "declaration")
  \/ /\ node.type = "VariableDeclaration"
     /\ \E k \in DOMAIN List(node, "declarations") :
           ~IsObject(List(node, "declarations")[k], "init")
  \/ node.type = "ExpressionStatement" /\ ~IsObject(Get(node, "expression"), "left")

\* the reduce callback over ast.body, for a node that does not throw
reduceNode(scope, node) ==
  IF node.type = "ExportNamedDeclaration"
  THEN IF TypeAt(node, "declaration") = "FunctionDeclaration"
       THEN Put(scope, NameAt(Get(node, "declaration"), "id"),
                Entry(TRUE, Get(node, "declaration")))
       ELSE scope
  ELSE IF node.type = "FunctionDeclaration"
  THEN Put(scope, NameAt(node, "id"), Entry(FALSE, node))
  ELSE IF node.type = "VariableDeclaration"
  THEN declarators(scope, List(node, "declarations"), 1)
  ELSE IF node.type = "ExportDefaultDeclaration"
          /\ TypeAt(node, "declaration") = "ClassDeclaration"
  THEN classMembers(scope, List(Get(Get(node, "declaration"), "body"), "body"), 1)
  ELSE IF IsExportBag(node)
  THEN bagProperties(scope, BagProperties(node), 1)
  ELSE scope

\* a second reduce that keeps every entry
keepEvery(functions) == [name \in DOMAIN functions |-> functions[name].ast]

\* the second reduce: keep only the AST of the exported entries
keepExported(functions) ==
  [name \in {n \in DOMAIN functions : functions[n].exported} |-> functions[name].ast]

RECURSIVE reduceBody(_, _, _)
reduceBody(scope, body, k) ==
  IF k > Len(body) THEN [threw |-> FALSE, functions |-> scope]
  ELSE IF NodeThrows(body[k]) THEN [threw |-> TRUE, functions |-> <<>>]
  ELSE With(reduceNode(scope, body[k]), LAMBDA next : reduceBody(next, body, k + 1))

\* [threw, table]: the table returned, or a TypeError raised during the walk
getExportedFunctions(ast) ==
  With(reduceBody(<<>>, List(ast, "body"), 1),
       LAMBDA walk : [threw |-> walk.threw,
                      table |-> IF walk.threw THEN <<>> ELSE keepExported(walk.functions)])

(***************************************************************************)
(* Source text: a sequence of tokens [t, v, w].                            *)
(*   "id" v=name, "str" v=value, the punctuators and keywords,             *)
(*   "macro" v=module w=function: the text  %inline('v').w(                *)
(*   "comment" v=text, "nl" a line break, "ws" v=blanks, "bad" a character *)
(*   no grammar rule accepts.                                              *)
(***************************************************************************)
Tok(t)        == [t |-> t, v |-> "", w |-> ""]
Id(name)      == [t |-> "id", v |-> name, w |-> ""]
Str(value)    == [t |-> "str", v |-> value, w |-> ""]
Macro(m, f)   == [t |-> "macro", v |-> m, w |-> f]
Comment(text) == [t |-> "comment", v |-> text, w |-> ""]
Ws(blanks)    == [t |-> "ws", v |-> blanks, w |-> ""]
NL            == Tok("nl")

INLINE_TOKEN == "___js_inline_loader_inline"

\* tokens the scanner drops
Trivia == {"comment", "nl", "ws"}

RECURSIVE Skip(_, _)
Skip(src, i) == IF i <= Len(src) /\ src[i].t \in Trivia THEN Skip(src, i + 1) ELSE i

\* the kind of the next significant token at or after i
Kind(src, i) == IF Skip(src, i) <= Len(src) THEN src[Skip(src, i)].t ELSE "eof"

RECURSIVE Join(_, _, _)
\* parts[k] \o sep \o parts[k+1] \o ...
Join(parts, sep, k) ==
  IF k > Len(parts) THEN <<>>
  ELSE IF k = Len(parts) THEN parts[k]
  ELSE parts[k] \o sep \o Join(parts, sep, k + 1)

(***************************************************************************)
(* escodegen.generate                                                      *)
(***************************************************************************)
RECURSIVE generate(_)
generate(node) ==
  LET paren(e) == <<Tok("(")>> \o generate(e) \o <<Tok(")")>>
      \* an operand of +: lower precedence is parenthesised, and so is a
      \* right operand of the same precedence
      left(e)  == IF e.type = "AssignmentExpression" THEN paren(e) ELSE generate(e)
      right(e) == IF e.type \in {"AssignmentExpression", "BinaryExpression"}
                  THEN paren(e) ELSE generate(e)
      each(list) == [k \in DOMAIN list |-> generate(list[k])]
      decl(d)  == generate(Get(d, "id")) \o
                  (IF IsObject(d, "init")
                   THEN <<Tok("=")>> \o generate(Get(d, "init")) ELSE <<>>)
  IN CASE node.type = "Identifier" -> <<Id(Val(node, "name"))>>
       [] node.type = "Literal"    -> <<Str(Val(node, "value"))>>
       [] node.type = "BinaryExpression" ->
            left(Get(node, "left")) \o <<Tok("+")>> \o right(Get(node, "right"))
       [] node.type = "AssignmentExpression" ->
            generate(Get(node, "left")) \o <<Tok("=")>> \o generate(Get(node, "right"))
       [] node.type = "CallExpression" ->
            generate(Get(node, "callee")) \o <<Tok("(")>>
              \o With(each(List(node, "arguments")),
                      LAMBDA parts : Join(parts, <<Tok(",")>>, 1))
              \o <<Tok(")")>>
       [] node.type = "ExpressionStatement" ->
            generate(Get(node, "expression")) \o <<Tok(";")>>
       [] node.type = "ReturnStatement" ->
            <<Tok("return")>>
              \o (IF IsObject(node, "argument") THEN generate(Get(node, "argument")) ELSE <<>>)
              \o <<Tok(";")>>
       [] node.type = "VariableDeclaration" ->
            <<Tok("var")>>
              \o With([k \in DOMAIN List(node, "declarations") |->
                         decl(List(node, "declarations")[k])],
                      LAMBDA parts : Join(parts, <<Tok(",")>>, 1))
              \o <<Tok(";")>>
       [] node.type = "EmptyStatement" -> <<Tok(";")>>
       [] node.type = "BlockStatement" ->
            <<Tok("{"), NL>>
              \o With(each(List(node, "body")), LAMBDA parts : Join(parts, <<NL>>, 1))
              \o <<NL, Tok("}")>>
       [] node.type = "ForStatement" ->
            <<Tok("for"), Tok("(")>>
              \o (IF IsObject(node, "init") THEN generate(Get(node, "init")) ELSE <<Tok(";")>>)
              \o <<Tok(";"), Tok(")")>> \o generate(Get(node, "body"))
       [] node.type = "ArrayExpression" ->
            <<Tok("[")>>
              \o With([k \in DOMAIN List(node, "elements") |->
                         IF List(node, "elements")[k] = Hole THEN <<>>
                         ELSE generate(List(node, "elements")[k])],
                      LAMBDA parts : Join(parts, <<Tok(",")>>, 1))
              \o <<Tok("]")>>
       [] node.type = "Program" ->
            With(each(List(node, "body")), LAMBDA parts : Join(parts, <<NL>>, 1))

(***************************************************************************)
(* esprima.parse of source text, with range: true.  A result is            *)
(* [ok, node, next]: next is the index after the last token consumed.      *)
(* The range of a node is [offset of its first token, offset after its     *)
(* last token], a token at index k lying at offsets k-1 .. k.              *)
(***************************************************************************)
Failed == [ok |-> FALSE, node |-> EmptyObject, next |-> 0]
Parsed(node, first, next) ==
  [ok   |-> TRUE,
   node |-> [node EXCEPT !.props = Append(@, Numbers("range", <<first - 1, next - 1>>))],
   next |-> next]

RangeOf(node) == PropOf(node, "range").nums

NoArguments == [ok |-> FALSE, nodes |-> <<>>, next |-> 0]

RECURSIVE ParseExpression(_, _), ParseBinary(_, _, _), ParsePrimary(_, _),
          ParseArguments(_, _, _, _), ArgumentsAfter(_, _, _), CallAfter(_, _, _),
          GroupAfter(_, _), BinaryAfter(_, _, _, _), AssignmentAfter(_, _, _),
          AssignmentRight(_, _, _, _)

\* [ok, nodes, next]: the arguments after "(", through the closing ")"
ParseArguments(src, i, acc, first) ==
  IF first /\ Kind(src, i) = ")"
  THEN [ok |-> TRUE, nodes |-> acc, next |-> Skip(src, i) + 1]
  ELSE With(ParseExpression(src, i), LAMBDA e : ArgumentsAfter(src, acc, e))

\* after the argument e: a comma and more arguments, or the closing ")"
ArgumentsAfter(src, acc, e) ==
  IF ~e.ok THEN NoArguments
  ELSE IF Kind(src, e.next) = ","
  THEN ParseArguments(src, Skip(src, e.next) + 1, Append(acc, e.node), FALSE)
  ELSE IF Kind(src, e.next) = ")"
  THEN [ok |-> TRUE, nodes |-> Append(acc, e.node), next |-> Skip(src, e.next) + 1]
  ELSE NoArguments

\* the call of the identifier at j with the arguments parsed
CallAfter(src, j, args) ==
  IF args.ok
  THEN Parsed(CallExpression(Parsed(Identifier(src[j].v), j, j + 1).node, args.nodes),
              j, args.next)
  ELSE Failed

\* ( e ) : the node of e, ending after the ")"
GroupAfter(src, e) ==
  IF e.ok /\ Kind(src, e.next) = ")"
  THEN [e EXCEPT !.next = Skip(src, e.next) + 1]
  ELSE Failed

ParsePrimary(src, i) ==
  CASE Kind(src, i) = "id" ->
         IF Kind(src, Skip(src, i) + 1) = "("
         THEN With(ParseArguments(src, Skip(src, Skip(src, i) + 1) + 1, <<>>, TRUE),
                   LAMBDA args : CallAfter(src, Skip(src, i), args))
         ELSE Parsed(Identifier(src[Skip(src, i)].v), Skip(src, i), Skip(src, i) + 1)
    [] Kind(src, i) = "str" ->
         Parsed(Literal(src[Skip(src, i)].v), Skip(src, i), Skip(src, i) + 1)
    [] Kind(src, i) = "(" ->
         With(ParseExpression(src, Skip(src, i) + 1), LAMBDA e : GroupAfter(src, e))
    [] OTHER -> Failed

\* lhs (+ primary)*, left-associative; `first` is the index of lhs's first token
ParseBinary(src, lhs, first) ==
  IF ~lhs.ok THEN Failed
  ELSE IF Kind(src, lhs.next) = "+"
  THEN With(ParsePrimary(src, Skip(src, lhs.next) + 1),
            LAMBDA rhs : BinaryAfter(src, lhs, first, rhs))
  ELSE lhs

BinaryAfter(src, lhs, first, rhs) ==
  IF rhs.ok
  THEN With(Parsed(BinaryExpression(lhs.node, rhs.node), first, rhs.next),
            LAMBDA e : ParseBinary(src, e, first))
  ELSE Failed

ParseExpression(src, i) ==
  With(ParsePrimary(src, i), LAMBDA primary :
    With(ParseBinary(src, primary, Skip(src, i)), LAMBDA lhs :
      AssignmentAfter(src, Skip(src, i), lhs)))

\* lhs = expression, when "=" follows lhs
AssignmentAfter(src, first, lhs) ==
  IF lhs.ok /\ Kind(src, lhs.next) = "="
  THEN IF lhs.node.type \in {"Identifier", "MemberExpression"}
       THEN With(ParseExpression(src, Skip(src, lhs.next) + 1),
                 LAMBDA rhs : AssignmentRight(src, first, lhs, rhs))
       ELSE Failed   \* invalid left-hand side in assignment
  ELSE lhs

AssignmentRight(src, first, lhs, rhs) ==
  IF rhs.ok THEN Parsed(AssignmentExpression(lhs.node, rhs.node), first, rhs.next)
  ELSE Failed

\* a statement ends at ";", at the end of the text, or before a line break
EndOfStatement(src, node, first, next) ==
  IF Kind(src, next) = ";" THEN Parsed(node, first, Skip(src, next) + 1)
  ELSE IF Kind(src, next) = "eof" \/ \E k \in next .. (Skip(src, next) - 1) : src[k].t = "nl"
  THEN Parsed(node, first, next)
  ELSE Failed

\* var id = e
VarAfter(src, first, id, e) ==
  IF e.ok THEN EndOfStatement(src, Var(id, e.node), first, e.next) ELSE Failed

\* var id ... , the identifier at token n
VarAt(src, first, n) ==
  IF Kind(src, n + 1) = "="
  THEN With(ParseExpression(src, Skip(src, n + 1) + 1),
            LAMBDA e : VarAfter(src, first, src[n].v, e))
  ELSE EndOfStatement(src, VariableDeclaration(<<VariableDeclarator(src[n].v, Null("init"))>>),
                      first, n + 1)

ExpressionStatementAfter(src, first, e) ==
  IF e.ok THEN EndOfStatement(src, ExpressionStatement(e.node), first, e.next) ELSE Failed

ParseStatement(src, i) ==
  CASE Kind(src, i) = ";" -> Parsed(EmptyStatement, Skip(src, i), Skip(src, i) + 1)
    [] Kind(src, i) = "var" ->
         IF Kind(src, Skip(src, i) + 1) = "id"
         THEN VarAt(src, Skip(src, i), Skip(src, Skip(src, i) + 1))
         ELSE Failed
    [] Kind(src, i) \in {"id", "str", "("} ->
         With(ParseExpression(src, i),
              LAMBDA e : ExpressionStatementAfter(src, Skip(src, i), e))
    \* `return` outside a function, a stray punctuator, a bad character
    [] OTHER -> Failed

RECURSIVE ParseStatements(_, _, _), StatementsAfter(_, _, _)
ParseStatements(src, i, acc) ==
  IF Kind(src, i) = "eof" THEN [ok |-> TRUE, nodes |-> acc]
  ELSE With(ParseStatement(src, i), LAMBDA s : StatementsAfter(src, acc, s))

StatementsAfter(src, acc, s) ==
  IF s.ok THEN With(Append(acc, s.node), LAMBDA body : ParseStatements(src, s.next, body))
  ELSE [ok |-> FALSE, nodes |-> <<>>]

\* esprima.parse(source, {sourceType: 'module', range: true}): [ok, ast]
ProgramOf(body) ==
  [ok |-> body.ok, ast |-> IF body.ok THEN Program(body.nodes) ELSE EmptyObject]

esprimaParse(src) ==
  With(src, LAMBDA text : With(ParseStatements(text, 1, <<>>), LAMBDA body : ProgramOf(body)))

RECURSIVE StripRange(_)
\* a tree as esprima returns it without range: true
StripRange(node) ==
  LET keep  == SelectSeq(node.props, LAMBDA value : value.key # "range")
  IN  [type  |-> node.type,
       props |-> [i \in DOMAIN keep |->
                    [keep[i] EXCEPT !.nodes = [j \in DOMAIN keep[i].nodes |->
                                                 StripRange(keep[i].nodes[j])]]]]

(***************************************************************************)
(* The files of the build.  A file's contents are given by what            *)
(* esprima.parse makes of them: a module tree, or a syntax error.          *)
(***************************************************************************)
context == "/ctx"

\* path.resolve(this.context, gModule)
resolve(gModule) == context \o "/" \o gModule

\* options.resolve.extensions, or the default
extensions == <<"", ".js">>

Use(e) == ExpressionStatement(CallExpression(Identifier("use"), <<e>>))

\* m1.js
M1 ==
  Program(<<
    ExportNamedDeclaration(Object("declaration",
       FunctionDeclaration("one", <<>>, <<ReturnStatement(Literal("k1"))>>))),
    ExportNamedDeclaration(Object("declaration",
       FunctionDeclaration("add", <<"x", "y">>,
          <<ReturnStatement(BinaryExpression(Identifier("x"), Identifier("y")))>>))),
    ExportNamedDeclaration(Object("declaration",
       FunctionDeclaration("stmts", <<"x">>,
          <<Use(Identifier("x")), Use(Literal("k2"))>>))),
    ExportNamedDeclaration(Object("declaration", FunctionDeclaration("empty", <<>>, <<>>))),
    FunctionDeclaration("hidden", <<>>, <<ReturnStatement(Literal("k3"))>>),
    ExportNamedDeclaration(Object("declaration",
       FunctionDeclaration("self", <<>>,
          <<ReturnStatement(CallExpression(Identifier(INLINE_TOKEN),
                               <<Literal("m1"), Identifier("self")>>))>>)))
  >>)

\* the files that exist, with their contents
files ==
  [path \in {"/ctx/m1.js", "/ctx/broken.js"} |->
     IF path = "/ctx/m1.js" THEN [parses |-> TRUE, ast |-> M1]
     ELSE [parses |-> FALSE, ast |-> EmptyObject]]

\* [found, path, contents]: the first extension under which readFileSync succeeds
RECURSIVE loadModuleContents(_, _)
loadModuleContents(modulePath, k) ==
  IF k > Len(extensions) THEN [found |-> FALSE, path |-> "", contents |-> <<>>]
  ELSE IF (modulePath \o extensions[k]) \in DOMAIN files
  THEN [found |-> TRUE, path |-> modulePath \o extensions[k],
        contents |-> files[modulePath \o extensions[k]]]
  ELSE loadModuleContents(modulePath, k + 1)

\* the program `null`, which a parser that stringifies its input makes of null
NullProgram == Program(<<ExpressionStatement(Literal("null"))>>)

(***************************************************************************)
(* renderFunction, in its two versions                                     *)
(***************************************************************************)
FunctionBody(ast) == List(Get(ast, "body"), "body")

\* js-inline-loader.js: the rendered text
renderFunction(ast) ==
  IF Len(FunctionBody(ast)) = 0 THEN <<>>
  ELSE IF FunctionBody(ast)[1].type = "ReturnStatement"
  THEN generate(Get(FunctionBody(ast)[1], "argument"))
  ELSE generate(Program(FunctionBody(ast)))

\* function-inline-loader.js: [threw, code]; ast.body.body[0].type raises
\* a TypeError on an empty body
renderFunctionSweep(ast) ==
  IF Len(FunctionBody(ast)) = 0 THEN [threw |-> TRUE, code |-> <<>>]
  ELSE IF FunctionBody(ast)[1].type = "ReturnStatement"
  THEN [threw |-> FALSE, code |-> generate(Get(FunctionBody(ast)[1], "argument"))]
  ELSE [threw |-> FALSE, code |-> generate(Program(FunctionBody(ast)))]

(***************************************************************************)
(* The argument loop:  for (i = 0; i < fnArgs.length; ++i)                 *)
(*   fnAst = replaceIdentifier(fnAst.params[i].name, fnArgs[i], fnAst)     *)
(***************************************************************************)
\* fnAst.params[i] is undefined: reading its name raises a TypeError
ParamThrows(ast, i) == i > Len(List(ast, "params"))

\* fnAst.params[i].name
ParamName(ast, i) == Val(List(ast, "params")[i], "name")

\* the iteration raises
ArgThrows(ast, i) == ParamThrows(ast, i) \/ replaceThrows(ParamName(ast, i), ast)

substituteArg(ast, args, i) == replaceIdentifier(ParamName(ast, i), args[i], ast)

RECURSIVE substituteArgs(_, _, _)
\* [threw, ast], the loop from i on (i counts from 1)
substituteArgs(ast, args, i) ==
  IF i > Len(args) THEN [threw |-> FALSE, ast |-> ast]
  ELSE IF ArgThrows(ast, i) THEN [threw |-> TRUE, ast |-> ast]
  ELSE With(substituteArg(ast, args, i), LAMBDA fnAst1 : substituteArgs(fnAst1, args, i + 1))

(***************************************************************************)
(* The iterative driver (js-inline-loader.js)                              *)
(***************************************************************************)
\* what a callback did: raised, or returned `code`, having reported
\* `errors` and registered `deps`
Outcome(threw, code, errs, ds) ==
  [threw |-> threw, code |-> code, errors |-> errs, deps |-> ds]

\* the arguments are replaced in the function ast, which is rendered
codeSubstituted(filePath, subst) ==
  IF subst.threw THEN Outcome(TRUE, <<>>, <<>>, {filePath})
  ELSE With(subst.ast, LAMBDA ast : Outcome(FALSE, renderFunction(ast), <<>>, {filePath}))

\* the function ast is located
codeExported(gModule, gFunction, args, filePath, exported) ==
  IF exported.threw THEN Outcome(TRUE, <<>>, <<>>, {filePath})
  ELSE IF gFunction \notin DOMAIN exported.table
  THEN Outcome(FALSE, <<Comment("Unknown inline " \o gFunction)>>,
               <<"%inline " \o gModule \o ": Undefined function " \o gFunction>>,
               {filePath})
  ELSE With(substituteArgs(exported.table[gFunction], args, 1),
            LAMBDA subst : codeSubstituted(filePath, subst))

\* the file is loaded and its AST extracted
codeLoaded(gModule, gFunction, args, filePath, loaded) ==
  IF ~loaded.found
  THEN Outcome(FALSE, <<Comment("Missing module " \o gModule)>>,
               <<"Could not find module " \o gModule>>, {})
  ELSE IF ~loaded.contents.parses
  THEN Outcome(FALSE, <<Comment("Parsing error in module " \o gModule)>>,
               <<"%inline " \o gModule \o ": SyntaxError">>, {})
  ELSE With(getExportedFunctions(loaded.contents.ast),
            LAMBDA exported : codeExported(gModule, gFunction, args, filePath, exported))

getFunctionCode(gModule, gFunction, args) ==
  With(loadModuleContents(resolve(gModule), 1),
       LAMBDA loaded : codeLoaded(gModule, gFunction, args, resolve(gModule), loaded))

NotFound == [found |-> FALSE, node |-> EmptyObject]

RECURSIVE findInlineToken(_), findInKeys(_, _), findInArray(_, _), findNext(_, _, _),
          findNextIn(_, _, _)
\* [found, node]: the first call of the magic function, in key order
findInlineToken(ast) ==
  IF ast.type = "CallExpression" /\ NameAt(ast, "callee") = INLINE_TOKEN
  THEN [found |-> TRUE, node |-> ast]
  ELSE findInKeys(ast, 1)

findInKeys(ast, i) ==
  IF i > Len(ast.props) THEN NotFound
  ELSE With(CASE ast.props[i].kind = "array"  -> findInArray(ast.props[i].nodes, 1)
              [] ast.props[i].kind = "object" -> findInlineToken(ast.props[i].nodes[1])
              [] OTHER -> NotFound,
            LAMBDA ans : findNext(ast, i, ans))

\* if (ans) return ans;
findNext(ast, i, ans) == IF ans.found THEN ans ELSE findInKeys(ast, i + 1)

findInArray(value, j) ==
  IF j > Len(value) THEN NotFound
  ELSE With(findInlineToken(value[j]), LAMBDA ans : findNextIn(value, j, ans))

findNextIn(value, j, ans) == IF ans.found THEN ans ELSE findInArray(value, j + 1)

\* blanks and line breaks, which \s matches
RECURSIVE SkipSpace(_, _)
SkipSpace(src, i) ==
  IF i <= Len(src) /\ src[i].t \in {"ws", "nl"} THEN SkipSpace(src, i + 1) ELSE i

RECURSIVE MACRO(_, _)
\* source.replace(MACRO, ...) from token i on: each  %inline('m').f(  becomes
\* ___js_inline_loader_inline('m',f,  and each  %inline('m').f()  becomes
\* ___js_inline_loader_inline('m',f)
MACRO(src, i) ==
  IF i > Len(src) THEN <<>>
  ELSE IF src[i].t = "macro"
  THEN LET head == <<Id(INLINE_TOKEN), Tok("("), Str(src[i].v), Tok(","), Id(src[i].w)>>
           gEmpty(close) == close <= Len(src) /\ src[close].t = ")"
       IN With(SkipSpace(src, i + 1), LAMBDA close :
            IF gEmpty(close) THEN head \o <<Tok(")")>> \o MACRO(src, close + 1)
            ELSE head \o <<Tok(",")>> \o MACRO(src, i + 1))
  ELSE <<src[i]>> \o MACRO(src, i + 1)

hasMacros(src) == \E i \in DOMAIN src : src[i].t = "macro"

\* the callback of replaceInlineFunc on the token found; a token with fewer
\* than two arguments raises a TypeError
replacement(token) ==
  With(List(token, "arguments"), LAMBDA arguments :
    IF Len(arguments) < 2 THEN Outcome(TRUE, <<>>, <<>>, {})
    ELSE With(SubSeq(arguments, 3, Len(arguments)), LAMBDA args :
           getFunctionCode(Val(arguments[1], "value"), Val(arguments[2], "name"), args)))

\* source.substring(0, range[0]) + replacement + source.substring(range[1])
splice(src, range, code) ==
  SubSeq(src, 1, range[1]) \o code \o SubSeq(src, range[2] + 1, Len(src))

(***************************************************************************)
(* The single-sweep driver (function-inline-loader.js)                     *)
(***************************************************************************)
\* [threw, args]: esprima.parse('X(' + argsExpression + ')')
\*                   .body[0].expression.arguments
argumentsOf(parsed) ==
  IF ~parsed.ok THEN [threw |-> TRUE, args |-> <<>>]
  ELSE IF /\ List(parsed.ast, "body")[1].type = "ExpressionStatement"
          /\ IsArray(Get(List(parsed.ast, "body")[1], "expression"), "arguments")
  THEN [threw |-> FALSE,
        args  |-> [k \in DOMAIN List(Get(List(parsed.ast, "body")[1], "expression"),
                                     "arguments") |->
                     StripRange(List(Get(List(parsed.ast, "body")[1], "expression"),
                                     "arguments")[k])]]
  ELSE [threw |-> TRUE, args |-> <<>>]

compileArgumentAst(argsExpression) ==
  With(esprimaParse(<<Id("X"), Tok("(")>> \o argsExpression \o <<Tok(")")>>),
       LAMBDA parsed : argumentsOf(parsed))

RECURSIVE indent(_, _, _)
\* code.replace(/\r?\n/g, '\n' + blanks), from token k on
indent(code, blanks, k) ==
  IF k > Len(code) THEN <<>>
  ELSE IF code[k].t = "nl" THEN <<NL>> \o blanks \o indent(code, blanks, k + 1)
  ELSE <<code[k]>> \o indent(code, blanks, k + 1)

\* the groups of a match of INLINE_MACRO
Match(gIndent, gAssignExpr, gFile, gFunction, gArgs) ==
  [gIndent |-> gIndent, gAssignExpr |-> gAssignExpr, gFile |-> gFile,
   gFunction |-> gFunction, gArgs |-> gArgs]

\* the code is indented and returned
sweepRendered(m, filePath, rendered) ==
  IF rendered.threw THEN Outcome(TRUE, <<>>, <<>>, {filePath})
  ELSE IF Len(m.gAssignExpr) > 0
  THEN Outcome(FALSE,
               m.gIndent \o m.gAssignExpr
                 \o indent(rendered.code, m.gIndent \o <<Ws("    ")>>, 1),
               <<>>, {filePath})
  ELSE Outcome(FALSE, m.gIndent \o indent(rendered.code, m.gIndent, 1), <<>>, {filePath})

\* the arguments are replaced in the function ast, which is rendered
sweepSubstituted(m, filePath, subst) ==
  IF subst.threw THEN Outcome(TRUE, <<>>, <<>>, {filePath})
  ELSE With(renderFunctionSweep(subst.ast),
            LAMBDA rendered : sweepRendered(m, filePath, rendered))

\* the arguments ast is compiled and counted
sweepCompiled(m, filePath, fn, compiled) ==
  IF compiled.threw THEN Outcome(TRUE, <<>>, <<>>, {filePath})
  ELSE IF Len(compiled.args) # Len(List(fn, "params"))
  THEN Outcome(FALSE, <<Comment("Invalid syntax for " \o m.gFunction)>>,
               <<"Function " \o m.gFunction \o " is expecting a different number of arguments">>,
               {filePath})
  ELSE With(substituteArgs(fn, compiled.args, 1),
            LAMBDA subst : sweepSubstituted(m, filePath, subst))

\* the function ast is located
sweepExported(m, filePath, exported) ==
  IF exported.threw THEN Outcome(TRUE, <<>>, <<>>, {filePath})
  ELSE IF m.gFunction \notin DOMAIN exported.table
  THEN Outcome(FALSE, <<Comment("Unknown inline " \o m.gFunction)>>,
               <<"Trying to inline unknown function " \o m.gFunction
                   \o " in module " \o m.gFile>>,
               {filePath})
  ELSE With(compileArgumentAst(m.gArgs),
            LAMBDA compiled : sweepCompiled(m, filePath, exported.table[m.gFunction], compiled))

\* the file is loaded and parsed, with no check of either: esprima.parse
\* raises on a syntax error, and on null it raises or parses the program `null`
sweepLoaded(m, coerces, filePath, loaded) ==
  IF (~loaded.found /\ ~coerces) \/ (loaded.found /\ ~loaded.contents.parses)
  THEN Outcome(TRUE, <<>>, <<>>, {})
  ELSE With(getExportedFunctions(IF loaded.found THEN loaded.contents.ast ELSE NullProgram),
            LAMBDA exported : sweepExported(m, filePath, exported))

\* the callback of source.replace(INLINE_MACRO, ...).  `coerces`: the parser
\* stringifies a null input instead of raising on it
sweepCallback(m, coerces) ==
  With(loadModuleContents(resolve(m.gFile), 1),
       LAMBDA loaded : sweepLoaded(m, coerces, resolve(m.gFile), loaded))

\* the index of the line break that ends the line of token i (Len + 1 at the end)
RECURSIVE LineEnd(_, _)
LineEnd(src, i) == IF i > Len(src) \/ src[i].t = "nl" THEN i ELSE LineEnd(src, i + 1)

\* the index after the leading blanks of the line that starts at i
RECURSIVE IndentEnd(_, _)
IndentEnd(src, i) == IF i <= Len(src) /\ src[i].t = "ws" THEN IndentEnd(src, i + 1) ELSE i

\* token e starts  );  at the end of a line
ClosesLine(src, e) ==
  /\ e + 1 <= Len(src) /\ src[e].t = ")" /\ src[e + 1].t = ";"
  /\ (e + 2 > Len(src) \/ src[e + 2].t = "nl")

\* the last macro of the line i .. stop-1, or 0
LastMacro(src, i, stop) ==
  IF \E h \in i .. (stop - 1) : src[h].t = "macro"
  THEN CHOOSE h \in i .. (stop - 1) :
         /\ src[h].t = "macro"
         /\ \A g \in (h + 1) .. (stop - 1) : src[g].t # "macro"
  ELSE 0

\* the first  );  after token h that ends a line, or 0
FirstClose(src, h) ==
  IF \E e \in (h + 1) .. Len(src) : ClosesLine(src, e)
  THEN CHOOSE e \in (h + 1) .. Len(src) :
         /\ ClosesLine(src, e)
         /\ \A d \in (h + 1) .. (e - 1) : ~ClosesLine(src, d)
  ELSE 0

\* the line break that follows token k - 1, if any
Break(src, k) == IF k <= Len(src) THEN <<NL>> ELSE <<>>

\* the text of an unmatched line is kept
sweepKept(src, i, stop, rest) ==
  [rest EXCEPT !.code = SubSeq(src, i, stop - 1) \o Break(src, stop) \o @]

\* the text of a match is replaced by what the callback returned
sweepReplaced(src, close, call, rest) ==
  [threw  |-> rest.threw,
   code   |-> call.code \o Break(src, close + 2) \o rest.code,
   errors |-> call.errors \o rest.errors,
   deps   |-> call.deps \cup rest.deps]

RECURSIVE INLINE_MACRO(_, _, _), sweepLine(_, _, _, _, _, _), sweepMatch(_, _, _, _)
\* source.replace(INLINE_MACRO, callback) from the line that starts at token i.
\* The pattern matches from the start of a line: blanks, a greedy prefix
\* (so the last macro of the line is the one matched), the macro, and its
\* arguments up to the first  );  that ends a line.
INLINE_MACRO(src, i, coerces) ==
  IF i > Len(src) THEN Outcome(FALSE, <<>>, <<>>, {})
  ELSE With(LineEnd(src, i), LAMBDA stop :
         With(LastMacro(src, i, stop), LAMBDA head :
           With(IF head = 0 THEN 0 ELSE FirstClose(src, head), LAMBDA close :
             sweepLine(src, i, coerces, stop, head, close))))

sweepLine(src, i, coerces, stop, head, close) ==
  IF head = 0 \/ close = 0
  THEN With(INLINE_MACRO(src, stop + 1, coerces), LAMBDA rest : sweepKept(src, i, stop, rest))
  ELSE With(Match(SubSeq(src, i, IndentEnd(src, i) - 1),
                  SubSeq(src, IndentEnd(src, i), head - 1),
                  src[head].v, src[head].w,
                  SubSeq(src, head + 1, close - 1)), LAMBDA m :
         With(sweepCallback(m, coerces), LAMBDA call : sweepMatch(src, coerces, close, call)))

sweepMatch(src, coerces, close, call) ==
  IF call.threw THEN call
  ELSE With(INLINE_MACRO(src, close + 3, coerces),
            LAMBDA rest : sweepReplaced(src, close, call, rest))

(***************************************************************************)
(* The inputs of the drivers: host sources of up to MaxLines lines          *)
(***************************************************************************)
MaxLines == 2

\* %inline('m').f(args)
Site(m, f, args) == <<Macro(m, f)>> \o args \o <<Tok(")")>>
Statement(e)     == e \o <<Tok(";")>>
Assign(e)        == <<Id("v"), Tok("=")>> \o e \o <<Tok(";")>>

HostLines ==
  { <<Id("a"), Tok(";")>>,
    <<Tok("bad"), Tok(";")>>,
    Statement(Site("m1", "one", <<>>)),
    Assign(Site("m1", "one", <<>>)),
    Statement(Site("m1", "add", <<Id("a"), Tok(","), Id("b")>>)),
    Assign(Site("m1", "add", <<Id("a"), Tok(","), Id("b")>>)),
    Statement(Site("m1", "add", <<Id("a")>>)),
    Statement(Site("m1", "one", <<Id("a")>>)),
    Statement(Site("missing", "one", <<>>)),
    Assign(Site("missing", "one", <<>>)),
    Statement(Site("broken", "one", <<>>)),
    Statement(Site("m1", "hidden", <<>>)),
    Statement(Site("m1", "self", <<>>)),
    Statement(Site("m1", "empty", <<>>)),
    <<Ws("  ")>> \o Statement(Site("m1", "stmts", <<Id("a")>>)),
    Statement(Site("m1", "add", Site("m1", "one", <<>>) \o <<Tok(","), Id("b")>>)),
    Statement(Site("m1", "one", <<>>)) \o Statement(Site("m1", "one", <<>>)),
    Statement(Site("m1.js", "one", <<>>)) }

Hosts ==
  UNION { { Join(lines, <<NL>>, 1) : lines \in [1 .. n -> HostLines] } : n \in 1 .. MaxLines }

(***************************************************************************)
(* The transforms                                                          *)
(***************************************************************************)
walkIdle  == /\ module = <<>> /\ stmt = 0 /\ prop = 0
             /\ scopeFunctions = <<>> /\ exportedFunc = <<>>
substIdle == /\ fnAst = EmptyObject /\ fnArgs = <<>> /\ argIdx = 0 /\ prevAst = EmptyObject

Init ==
  /\ driver \in {"iterative", "sweep"}
  /\ input \in Hosts
  /\ source = input
  /\ pc = "start"
  /\ errors = <<>>
  /\ deps = {}
  /\ pass = 0
  /\ walkIdle
  /\ substIdle

\* module.exports of js-inline-loader.js, up to the call of replaceInlineFunc
Transform ==
  /\ pc = "start" /\ driver = "iterative"
  /\ IF hasMacros(input)
     THEN source' = MACRO(input, 1) /\ pc' = "loop"
     ELSE source' = input /\ pc' = "done"
  /\ UNCHANGED <<driver, input, errors, deps, pass>>
  /\ UNCHANGED walkVars /\ UNCHANGED substVars

\* a pass of the loop of replaceInlineFunc: the source does not parse
ParseFails ==
  /\ pc = "loop"
  /\ \E parsed \in {esprimaParse(source)} : ~parsed.ok
  /\ errors' = Append(errors, "Inline processing failed: SyntaxError")
  /\ pc' = "done"
  /\ UNCHANGED <<driver, input, source, deps, pass>>
  /\ UNCHANGED walkVars /\ UNCHANGED substVars

\* a pass of the loop: no token is left
NoToken ==
  /\ pc = "loop"
  /\ \E parsed \in {esprimaParse(source)} :
        parsed.ok /\ ~findInlineToken(parsed.ast).found
  /\ pc' = "done"
  /\ UNCHANGED <<driver, input, source, errors, deps, pass>>
  /\ UNCHANGED walkVars /\ UNCHANGED substVars

\* the token found is replaced by what the callback returned, or the
\* callback raised
Replace(token, call) ==
  /\ errors' = errors \o call.errors
  /\ deps' = deps \cup call.deps
  /\ IF call.threw
     THEN pc' = "threw" /\ UNCHANGED <<source, pass>>
     ELSE /\ source' = splice(source, RangeOf(token), call.code)
          /\ pass' = 1 - pass
          /\ pc' = "loop"

Found(token) ==
  token.found /\ \E call \in {replacement(token.node)} : Replace(token.node, call)

\* a pass of the loop: the first token is replaced by what the callback returns
Expand ==
  /\ pc = "loop"
  /\ \E parsed \in {esprimaParse(source)} :
        parsed.ok /\ \E token \in {findInlineToken(parsed.ast)} : Found(token)
  /\ UNCHANGED <<driver, input>>
  /\ UNCHANGED walkVars /\ UNCHANGED substVars

Swept(swept) ==
  /\ errors' = swept.errors
  /\ deps' = swept.deps
  /\ IF swept.threw
     THEN pc' = "threw" /\ UNCHANGED source
     ELSE pc' = "done" /\ source' = swept.code

\* module.exports of function-inline-loader.js
Sweep ==
  /\ pc = "start" /\ driver = "sweep"
  /\ \E coerces \in BOOLEAN : \E swept \in {INLINE_MACRO(input, 1, coerces)} : Swept(swept)
  /\ UNCHANGED <<driver, input, pass>>
  /\ UNCHANGED walkVars /\ UNCHANGED substVars

Next == Transform \/ ParseFails \/ NoToken \/ Expand \/ Sweep

Spec == Init /\ [][Next]_vars

\* the loop of replaceInlineFunc is synchronous code: it takes its next pass
FairSpec == Spec /\ WF_vars(Next)

(***************************************************************************)
(* getExportedFunctions, statement by statement, on module trees of up to  *)
(* MaxTop top-level statements                                             *)
(***************************************************************************)
MaxTop == 3

\* function name() { return 'mark' } : the mark tells the definitions apart
Returns(mark) == <<ReturnStatement(Literal(mark))>>

ExportBag(properties) ==
  ExpressionStatement(AssignmentExpression(
    MemberExpression(Identifier("module"), Identifier("exports")),
    ObjectExpression(properties)))

TopLevel ==
  { \* export function f() { return 'f1' }
    ExportNamedDeclaration(Object("declaration", FunctionDeclaration("f", <<>>, Returns("f1")))),
    \* function g() { function inner() { return 'i2' } return 'g2' }
    FunctionDeclaration("g", <<>>,
       <<FunctionDeclaration("inner", <<>>, Returns("i2"))>> \o Returns("g2")),
    \* var h = function() { return 'h3' }
    Var("h", FunctionExpression(<<>>, Returns("h3"))),
    \* export default class { static s() { return 's4' }  m() { return 'm4' } }
    ExportDefaultDeclaration(ClassDeclaration(
       <<MethodDefinition("s", "true", FunctionExpression(<<>>, Returns("s4"))),
         MethodDefinition("m", "false", FunctionExpression(<<>>, Returns("m4")))>>)),
    \* module.exports = { g }
    ExportBag(<<Property("g", Identifier("g"))>>),
    \* module.exports = { k: g, h }
    ExportBag(<<Property("k", Identifier("g")), Property("h", Identifier("h"))>>),
    \* module.exports = { n: function() { return 'n7' }, o: other, q: toString }
    ExportBag(<<Property("n", FunctionExpression(<<>>, Returns("n7"))),
                Property("o", Identifier("other")),
                Property("q", Identifier("toString"))>>),
    \* module.exports = { f: h }
    ExportBag(<<Property("f", Identifier("h"))>>),
    \* a = b;
    ExpressionStatement(AssignmentExpression(Identifier("a"), Identifier("b"))),
    \* use();
    ExpressionStatement(CallExpression(Identifier("use"), <<>>)),
    \* var v;
    VariableDeclaration(<<VariableDeclarator("v", Null("init"))>>),
    \* var w = 'w12';
    Var("w", Literal("w12")),
    \* export { g }
    ExportNamedDeclaration(Null("declaration")),
    \* export var e = function() { return 'e14' }
    ExportNamedDeclaration(Object("declaration",
       Var("e", FunctionExpression(<<>>, Returns("e14"))))),
    \* { function deep() { return 'd15' } }
    BlockStatement(<<FunctionDeclaration("deep", <<>>, Returns("d15"))>>),
    \* module.exports = { n: function() { return 'n16' } }
    ExportBag(<<Property("n", FunctionExpression(<<>>, Returns("n16")))>>),
    \* function n() { return 'n17' }
    FunctionDeclaration("n", <<>>, Returns("n17")) }

\* the statements of a module are distinct
Modules ==
  UNION { { body \in [1 .. n -> TopLevel] :
              \A i, j \in 1 .. n : i # j => body[i] # body[j] } : n \in 1 .. MaxTop }

driverIdle ==
  /\ driver = "none" /\ input = <<>> /\ source = <<>>
  /\ errors = <<>> /\ deps = {} /\ pass = 0

ExportInit ==
  /\ module \in Modules
  /\ stmt = 1 /\ prop = 1
  /\ scopeFunctions = <<>>
  /\ exportedFunc = <<>>
  /\ pc = "walk"
  /\ driverIdle
  /\ substIdle

\* the walk is at an export bag that has a property left
AtBag ==
  /\ pc = "walk" /\ stmt <= Len(module)
  /\ ~NodeThrows(module[stmt])
  /\ IsExportBag(module[stmt])
  /\ prop <= Len(BagProperties(module[stmt]))

\* the reduce callback on the next top-level statement, the forEach over the
\* properties of an export bag apart
WalkStatement ==
  /\ pc = "walk" /\ stmt <= Len(module) /\ ~AtBag
  /\ IF NodeThrows(module[stmt])
     THEN pc' = "threw" /\ UNCHANGED <<stmt, scopeFunctions>>
     ELSE /\ scopeFunctions' = reduceNode(scopeFunctions, module[stmt])
          /\ stmt' = stmt + 1
          /\ pc' = "walk"
  /\ UNCHANGED <<module, prop, exportedFunc>>
  /\ UNCHANGED driverVars /\ UNCHANGED substVars

\* the forEach callback on the next property of the export bag
WalkProperty ==
  /\ AtBag
  /\ scopeFunctions' = bagProperty(scopeFunctions, BagProperties(module[stmt])[prop])
  /\ IF prop = Len(BagProperties(module[stmt]))
     THEN stmt' = stmt + 1 /\ prop' = 1
     ELSE prop' = prop + 1 /\ UNCHANGED stmt
  /\ UNCHANGED <<module, exportedFunc, pc>>
  /\ UNCHANGED driverVars /\ UNCHANGED substVars

\* the second reduce, and the return
Filter ==
  /\ pc = "walk" /\ stmt > Len(module)
  /\ exportedFunc' = keepExported(scopeFunctions)
  /\ pc' = "returned"
  /\ UNCHANGED <<module, stmt, prop, scopeFunctions>>
  /\ UNCHANGED driverVars /\ UNCHANGED substVars

ExportNext == WalkStatement \/ WalkProperty \/ Filter

ExportSpec == ExportInit /\ [][ExportNext]_vars

(***************************************************************************)
(* The argument loop and the rendering, on functions of up to MaxBody      *)
(* statements called with up to MaxArgs arguments                          *)
(***************************************************************************)
MaxBody == 2
MaxArgs == 2

BodyStatements ==
  { \* return x + y;
    ReturnStatement(BinaryExpression(Identifier("x"), Identifier("y"))),
    \* use(x);
    Use(Identifier("x")),
    \* var x = 'v';
    Var("x", Literal("v")),
    \* { use(x); }
    BlockStatement(<<Use(Identifier("x"))>>),
    \* { var y = 'w'; use(x + y); }
    BlockStatement(<<Var("y", Literal("w")),
                     Use(BinaryExpression(Identifier("x"), Identifier("y")))>>),
    \* for (var x = 'i';;) use(x);
    ForStatement(Object("init", Var("x", Literal("i"))), Use(Identifier("x"))),
    \* for (;;) { use(y); }
    ForStatement(Null("init"), BlockStatement(<<Use(Identifier("y"))>>)),
    \* return [x, , y];
    ReturnStatement(ArrayExpression(<<Identifier("x"), Hole, Identifier("y")>>)) }

Bodies ==
  UNION { { body \in [1 .. n -> BodyStatements] :
              \A i, j \in 1 .. n : i # j => body[i] # body[j] } : n \in 0 .. MaxBody }

\* function fn(x) { ... }  and  function fn(x, y) { ... }
Functions ==
  { FunctionDeclaration("fn", params, body) : params \in {<<"x">>, <<"x", "y">>}, body \in Bodies }

\* the arguments as the drivers hand them over: token.arguments of the host
\* parsed with range: true, or the arguments compileArgumentAst parsed
ArgumentTrees(ranged) ==
  LET parsed == { ParseExpression(text, 1).node :
                    text \in { <<Id("a")>>, <<Id("y")>>, <<Id("x"), Tok("+"), Str("l")>> } }
  IN IF ranged THEN parsed ELSE { StripRange(e) : e \in parsed }

Arguments(ranged) == UNION { [1 .. n -> ArgumentTrees(ranged)] : n \in 0 .. MaxArgs }

SubstInit ==
  /\ driver \in {"iterative", "sweep"}
  /\ fnAst \in Functions
  /\ fnArgs \in Arguments(driver = "iterative")
  \* the sweep driver enters the loop after its check of the argument count
  /\ driver = "sweep" => Len(fnArgs) = Len(List(fnAst, "params"))
  /\ argIdx = 1
  /\ prevAst = EmptyObject
  /\ pc = "args"
  /\ input = <<>> /\ source = <<>> /\ errors = <<>> /\ deps = {} /\ pass = 0
  \* var fnAst = exportedFn[gFunction]: the table keeps the function as the
  \* module defines it, the loop works on copies
  /\ exportedFunc = ("fn" :> fnAst)
  /\ module = <<>> /\ stmt = 0 /\ prop = 0 /\ scopeFunctions = <<>>

\* an iteration of the argument loop
ReplaceArgument ==
  /\ pc = "args" /\ argIdx <= Len(fnArgs)
  /\ IF ArgThrows(fnAst, argIdx)
     THEN pc' = "threw" /\ UNCHANGED <<fnAst, argIdx, prevAst>>
     ELSE /\ fnAst' = substituteArg(fnAst, fnArgs, argIdx)
          /\ prevAst' = fnAst
          /\ argIdx' = argIdx + 1
          /\ pc' = "args"
  /\ UNCHANGED <<driver, input, source, errors, deps, pass, fnArgs>>
  /\ UNCHANGED walkVars

\* the loop is over: the function is rendered
Render ==
  /\ pc = "args" /\ argIdx > Len(fnArgs)
  /\ IF driver = "sweep"
     THEN \E rendered \in {renderFunctionSweep(fnAst)} :
            IF rendered.threw THEN pc' = "threw" /\ UNCHANGED source
            ELSE pc' = "rendered" /\ source' = rendered.code
     ELSE pc' = "rendered" /\ source' = renderFunction(fnAst)
  /\ UNCHANGED <<driver, input, errors, deps, pass>>
  /\ UNCHANGED walkVars /\ UNCHANGED substVars

SubstNext == ReplaceArgument \/ Render

SubstSpec == SubstInit /\ [][SubstNext]_vars

(***************************************************************************)
(* Properties of the transforms                                            *)
(***************************************************************************)
\* the macro sites of a text
Sites(src) == {h \in DOMAIN src : src[h].t = "macro"}

Loaded(m) == loadModuleContents(resolve(m), 1)
Unreadable(m)  == ~Loaded(m).found
Unparseable(m) == Loaded(m).found /\ ~Loaded(m).contents.parses
ExportTable(m) == getExportedFunctions(Loaded(m).contents.ast).table

\* the module is read and parsed and exports the function
Resolves(m, f) ==
  /\ Loaded(m).found /\ Loaded(m).contents.parses
  /\ ~getExportedFunctions(Loaded(m).contents.ast).threw
  /\ f \in DOMAIN ExportTable(m)

\* the module is unreadable or unparseable, or its table lacks the function
SiteFails(src, h) ==
  \/ Unreadable(src[h].v)
  \/ Unparseable(src[h].v)
  \/ /\ Loaded(src[h].v).found /\ Loaded(src[h].v).contents.parses
     /\ ~getExportedFunctions(Loaded(src[h].v).contents.ast).threw
     /\ src[h].w \notin DOMAIN ExportTable(src[h].v)

\* the argument trees written at site h
SuppliedArgs(src, h) ==
  LET call == ParsePrimary(MACRO(SubSeq(src, h, Len(src)), 1), 1).node
  IN  SubSeq(List(call, "arguments"), 3, Len(List(call, "arguments")))

DeclaredParams(src, h) == List(ExportTable(src[h].v)[src[h].w], "params")

\* the site names an exported function but supplies another number of arguments
ArityMismatch(src, h) ==
  /\ Resolves(src[h].v, src[h].w)
  /\ Len(SuppliedArgs(src, h)) # Len(DeclaredParams(src, h))

\* the site names an exported function of a readable, parseable module and
\* supplies as many arguments as it declares parameters
WellFormed(src, h) ==
  /\ Resolves(src[h].v, src[h].w)
  /\ Len(SuppliedArgs(src, h)) = Len(DeclaredParams(src, h))

\* the host source itself is valid
HostParses(src) == esprimaParse(MACRO(src, 1)).ok

Placeholders(src) == {k \in DOMAIN src : src[k].t = "comment"}

\* a macro in either spelling
MacroLeft(src) ==
  \E k \in DOMAIN src : src[k].t = "macro" \/ src[k] = Id(INLINE_TOKEN)

\* text `part` occurs in text `whole`
Contains(whole, part) ==
  \E k \in 0 .. (Len(whole) - Len(part)) : SubSeq(whole, k + 1, k + Len(part)) = part

\* what renderFunction gives for site h, whose arguments hold no macro
Rendering(src, h) ==
  renderFunction(substituteArgs(ExportTable(src[h].v)[src[h].w],
                                [k \in DOMAIN SuppliedArgs(src, h) |->
                                   StripRange(SuppliedArgs(src, h)[k])], 1).ast)

\* C1: in both transforms, when every macro site of the source fails to
\* resolve (module unreadable, module unparseable, or function not in the
\* export table), the transform returns normally, having reported a
\* diagnostic and substituted a placeholder comment for each of them.
C1_FailuresDegrade ==
  (Sites(input) # {} /\ HostParses(input) /\ \A h \in Sites(input) : SiteFails(input, h))
    => /\ pc # "threw"
       /\ pc = "done" =>
            /\ Len(errors) >= Cardinality(Sites(input))
            /\ Cardinality(Placeholders(source)) = Cardinality(Sites(input))

\* C2: in both drivers, when every macro site of the source supplies another
\* number of arguments than its function declares, no site is rendered: each
\* gets a diagnostic and a placeholder, and the transform returns.
C2_ArityMismatchRejected ==
  (Sites(input) # {} /\ HostParses(input)
     /\ \A h \in Sites(input) : ArityMismatch(input, h))
    => /\ pc # "threw"
       /\ pc = "done" =>
            /\ Len(errors) >= Cardinality(Sites(input))
            /\ Cardinality(Placeholders(source)) = Cardinality(Sites(input))

\* the function of site h is self, whose body is a call of the magic function
SelfSite(src, h) == src[h].v = "m1" /\ src[h].w = "self"

\* C3: the iterative driver, on a valid host whose sites each either fail to
\* resolve or are well formed, returns a source in which no well-formed site
\* is left unexpanded, wherever the failed sites stand.
C3_PlaceholderDoesNotBlock ==
  ( /\ driver = "iterative" /\ pc = "done" /\ HostParses(input)
    /\ \E h \in Sites(input) : SiteFails(input, h)
    /\ \A h \in Sites(input) :
          SiteFails(input, h) \/ (WellFormed(input, h) /\ ~SelfSite(input, h)) )
    => ~MacroLeft(source)

\* C4: in both drivers, a valid host with two or more macro sites, all well
\* formed, comes back from one call with no macro left in it and with the
\* rendering of each site's function in it.
C4_AllSitesExpand ==
  ( /\ Cardinality(Sites(input)) >= 2 /\ HostParses(input)
    /\ \A h \in Sites(input) : WellFormed(input, h) /\ ~SelfSite(input, h) )
    => /\ pc # "threw"
       /\ pc = "done" =>
            /\ ~MacroLeft(source)
            /\ \A h \in Sites(input) :
                  (\A k \in DOMAIN SuppliedArgs(input, h) :
                      ~findInlineToken(SuppliedArgs(input, h)[k]).found)
                    => Contains(source, Rendering(input, h))

\* C5: the loop of replaceInlineFunc returns: every run of a transform ends.
C5_LoopReturns == <>(pc \in {"done", "threw"})

\* C6: when the iterative driver gives up on a source that does not parse,
\* the macro sites left in the text it returns are spelled as in its input:
\* none is in the rewritten form.
C6_ParseFailureReturnsOriginal ==
  ( /\ driver = "iterative" /\ pc = "done"
    /\ \E k \in DOMAIN errors : errors[k] = "Inline processing failed: SyntaxError" )
    => \A k \in DOMAIN source : source[k] # Id(INLINE_TOKEN)

(***************************************************************************)
(* Properties of getExportedFunctions                                      *)
(***************************************************************************)
Named(name, def) == [name |-> name, def |-> def]

IsFunction(node) == node.type \in {"FunctionDeclaration", "FunctionExpression"}

\* function name() {}  and  var name = function() {}  as a top-level statement
PlainDefs(node) ==
  IF node.type = "FunctionDeclaration" THEN {Named(NameAt(node, "id"), node)}
  ELSE IF node.type = "VariableDeclaration"
  THEN {Named(NameAt(List(node, "declarations")[k], "id"),
              Get(List(node, "declarations")[k], "init")) :
          k \in {j \in DOMAIN List(node, "declarations") :
                   TypeAt(List(node, "declarations")[j], "init") = "FunctionExpression"}}
  ELSE {}

\* var name = function() {}
VarDefs(node) == IF node.type = "VariableDeclaration" THEN PlainDefs(node) ELSE {}

\* export function name() {}
DirectDefs(node) ==
  IF node.type = "ExportNamedDeclaration" /\ TypeAt(node, "declaration") = "FunctionDeclaration"
  THEN {Named(NameAt(Get(node, "declaration"), "id"), Get(node, "declaration"))}
  ELSE {}

ClassMembers(node) == List(Get(Get(node, "declaration"), "body"), "body")

\* export default class { static name() {} }
StaticDefs(node) ==
  IF node.type = "ExportDefaultDeclaration" /\ TypeAt(node, "declaration") = "ClassDeclaration"
  THEN {Named(NameAt(ClassMembers(node)[k], "key"), Get(ClassMembers(node)[k], "value")) :
          k \in {j \in DOMAIN ClassMembers(node) :
                   /\ ClassMembers(node)[j].type = "MethodDefinition"
                   /\ Val(ClassMembers(node)[j], "static") = "true"}}
  ELSE {}

\* module.exports = { name: function() {} }
BagDefs(node) ==
  IF node.type = "ExpressionStatement" /\ IsExportBag(node)
  THEN {Named(NameAt(BagProperties(node)[k], "key"), Get(BagProperties(node)[k], "value")) :
          k \in {j \in DOMAIN BagProperties(node) :
                   TypeAt(BagProperties(node)[j], "value") = "FunctionExpression"}}
  ELSE {}

\* some property of some export bag of the module has the identifier `name`
\* as its value
References(body, name) ==
  \E k \in DOMAIN body :
     /\ body[k].type = "ExpressionStatement" /\ IsExportBag(body[k])
     /\ \E j \in DOMAIN BagProperties(body[k]) :
           /\ TypeAt(BagProperties(body[k])[j], "value") = "Identifier"
           /\ NameAt(BagProperties(body[k])[j], "value") = name

Children(node) ==
  UNION {{node.props[i].nodes[j] : j \in DOMAIN node.props[i].nodes} : i \in DOMAIN node.props}

RECURSIVE FunctionsBelow(_, _)
\* the functions in the subtree of node that stand inside a block
FunctionsBelow(node, inBlock) ==
  (IF inBlock /\ IsFunction(node) THEN {node} ELSE {})
    \cup UNION {FunctionsBelow(child, inBlock \/ node.type = "BlockStatement") :
                  child \in Children(node)}

\* the functions declared below the top level of the module
NestedFunctions(body) == UNION {FunctionsBelow(body[k], FALSE) : k \in DOMAIN body}

\* C7: the table returned holds exactly the entries marked exported at the
\* end of the walk, each with its definition; the definition of a plain
\* function declaration or of a variable-assigned function expression that no
\* export-bag property references is not in it; and no function nested below
\* the top level is ever recorded.
C7_TableIsExportedEntries ==
  /\ \A d \in NestedFunctions(module) :
        \A n \in DOMAIN scopeFunctions : scopeFunctions[n].ast # d
  /\ pc = "returned" =>
       /\ DOMAIN exportedFunc = {n \in DOMAIN scopeFunctions : scopeFunctions[n].exported}
       /\ \A n \in DOMAIN exportedFunc : exportedFunc[n] = scopeFunctions[n].ast
       /\ \A k \in DOMAIN module : \A p \in PlainDefs(module[k]) :
             ~References(module, p.name)
               => \A n \in DOMAIN exportedFunc : exportedFunc[n] # p.def

\* a walk has returned a table, leaving out an unreferenced plain function
\* beside a nested one
C7_Witness ==
  /\ pc = "returned"
  /\ exportedFunc # <<>>
  /\ NestedFunctions(module) # {}
  /\ \E k \in DOMAIN module : \E p \in PlainDefs(module[k]) :
        /\ ~References(module, p.name)
        /\ p.name \in DOMAIN scopeFunctions /\ p.name \notin DOMAIN exportedFunc

\* the table maps the name to the definition
Exports(p) == p.name \in DOMAIN exportedFunc /\ exportedFunc[p.name] = p.def

\* C8, as stated: a module of one statement that is one of the four idioms
\* yields a table mapping each name it defines to its definition.
C8_FourIdiomsExport ==
  (pc = "returned" /\ Len(module) = 1)
    => \A p \in DirectDefs(module[1]) \cup VarDefs(module[1])
                  \cup StaticDefs(module[1]) \cup BagDefs(module[1]) : Exports(p)

\* property j of the export bag refers to `name`, and no later property of
\* the bag has its key
RefersTo(bag, j, name) ==
  /\ TypeAt(BagProperties(bag)[j], "value") = "Identifier"
  /\ NameAt(BagProperties(bag)[j], "value") = name
  /\ \A i \in (j + 1) .. Len(BagProperties(bag)) :
        NameAt(BagProperties(bag)[i], "key") # NameAt(BagProperties(bag)[j], "key")

\* C8, amended: a module of one statement that is a direct exported
\* declaration, a default class with static methods or an export bag of
\* function expressions yields a table mapping each name to its definition;
\* a variable-assigned function expression alone yields no entry, and
\* followed by an export bag that refers to it yields the key of the
\* reference mapped to the function expression.
C8_ExportingIdiomsExport ==
  /\ (pc = "returned" /\ Len(module) = 1)
       => /\ \A p \in DirectDefs(module[1]) \cup StaticDefs(module[1]) \cup BagDefs(module[1]) :
                Exports(p)
          /\ \A p \in VarDefs(module[1]) : p.name \notin DOMAIN exportedFunc
  /\ (pc = "returned" /\ Len(module) = 2 /\ IsExportBag(module[2]))
       => \A p \in VarDefs(module[1]) : \A j \in DOMAIN BagProperties(module[2]) :
             RefersTo(module[2], j, p.name)
               => Exports(Named(NameAt(BagProperties(module[2])[j], "key"), p.def))

\* a module that is one default class has returned its static method, and
\* not its other method
C8_Witness ==
  /\ pc = "returned" /\ Len(module) = 1
  /\ StaticDefs(module[1]) # {}
  /\ \A p \in StaticDefs(module[1]) : Exports(p)
  /\ Cardinality(DOMAIN exportedFunc) < Len(ClassMembers(module[1]))

\* the property the forEach callback is about to take
BagProperty == BagProperties(module[stmt])[prop]

\* C9: a step of the forEach over an export bag, on a property whose value is
\* an identifier naming a recorded function: under the same key the entry
\* becomes exported and keeps its definition; under another key, the key is
\* recorded as exported with the definition of the entry referred to, and
\* that entry is left as it was.
C9_BagReference ==
  [][ ( /\ AtBag
        /\ TypeAt(BagProperty, "value") = "Identifier"
        /\ NameAt(BagProperty, "value") \in DOMAIN scopeFunctions )
      => IF NameAt(BagProperty, "key") = NameAt(BagProperty, "value")
         THEN /\ DOMAIN scopeFunctions' = DOMAIN scopeFunctions
              /\ scopeFunctions'[NameAt(BagProperty, "value")]
                   = Entry(TRUE, scopeFunctions[NameAt(BagProperty, "value")].ast)
         ELSE /\ NameAt(BagProperty, "key") \in DOMAIN scopeFunctions'
              /\ scopeFunctions'[NameAt(BagProperty, "key")]
                   = Entry(TRUE, scopeFunctions[NameAt(BagProperty, "value")].ast)
              /\ scopeFunctions'[NameAt(BagProperty, "value")]
                   = scopeFunctions[NameAt(BagProperty, "value")] ]_vars

\* module.exports = { k: g, h } after g and h were recorded: the table holds
\* k with the definition of g, and h, and g is still not exported
C9_Witness ==
  /\ pc = "returned"
  /\ DOMAIN exportedFunc = {"k", "h"}
  /\ "g" \in DOMAIN scopeFunctions /\ ~scopeFunctions["g"].exported
  /\ exportedFunc["k"] = scopeFunctions["g"].ast

(***************************************************************************)
(* Properties of replaceIdentifier                                         *)
(***************************************************************************)
\* A path leads from a tree to a node below it: a sequence of steps <<i, j>>,
\* element j of the i-th key.
RECURSIVE PathsOf(_)
PathsOf(node) ==
  {<<>>} \cup
  UNION { UNION { { <<<<i, j>>>> \o path : path \in PathsOf(node.props[i].nodes[j]) } :
                    j \in DOMAIN node.props[i].nodes } : i \in DOMAIN node.props }

RECURSIVE NodeAt(_, _)
NodeAt(tree, path) ==
  IF path = <<>> THEN tree
  ELSE NodeAt(tree.props[path[1][1]].nodes[path[1][2]], Tail(path))

\* the declaration declares `name`
DeclaresName(node, name) ==
  /\ node.type = "VariableDeclaration"
  /\ \E k \in DOMAIN List(node, "declarations") :
        NameAt(List(node, "declarations")[k], "id") = name

\* a block-like node whose own statement list declares `name`, in a variable
\* declaration or in the initializer of a for-loop
Shadows(node, name) ==
  /\ HasKey(node, "body") /\ PropOf(node, "body").kind = "array"
  /\ \E k \in DOMAIN List(node, "body") :
        \/ DeclaresName(List(node, "body")[k], name)
        \/ /\ List(node, "body")[k].type = "ForStatement"
           /\ IsObject(List(node, "body")[k], "init")
           /\ DeclaresName(Get(List(node, "body")[k], "init"), name)

\* the node at the path lies inside a block that shadows `name`
InShadow(tree, path, name) ==
  \E k \in 0 .. (Len(path) - 1) : Shadows(NodeAt(tree, SubSeq(path, 1, k)), name)

IsNamed(node, name) == node.type = "Identifier" /\ Val(node, "name") = name

\* `copy` has the type of `node` and its keys, each with the value it has in
\* `node`, or with as many elements
Copied(node, copy) ==
  /\ copy.type = node.type
  /\ DOMAIN copy.props = DOMAIN node.props
  /\ \A i \in DOMAIN node.props :
        /\ copy.props[i].key = node.props[i].key
        /\ copy.props[i].kind = node.props[i].kind
        /\ copy.props[i].val = node.props[i].val
        /\ copy.props[i].nums = node.props[i].nums
        /\ Len(copy.props[i].nodes) = Len(node.props[i].nodes)

\* C10: a call replaceIdentifier(name, r, t) of the argument loop returns;
\* the tree it returns has r at every identifier of t named `name` that is
\* not inside a shadowing block, as r was given; and every other node of t,
\* the array elements that are no nodes too, is copied as it was.
C10_ReplacesAndCopies ==
  /\ (pc = "threw" /\ argIdx <= Len(fnArgs)) => ParamThrows(fnAst, argIdx)
  /\ argIdx > 1 =>
       \A path \in PathsOf(prevAst) :
          ~InShadow(prevAst, path, ParamName(prevAst, argIdx - 1))
            => IF IsNamed(NodeAt(prevAst, path), ParamName(prevAst, argIdx - 1))
               THEN NodeAt(fnAst, path) = fnArgs[argIdx - 1]
               ELSE IF Shadows(NodeAt(prevAst, path), ParamName(prevAst, argIdx - 1))
               THEN NodeAt(fnAst, path) = NodeAt(prevAst, path)
               ELSE Copied(NodeAt(prevAst, path), NodeAt(fnAst, path))

\* the identifiers named `name` at or below the node
Occurrences(node, name) ==
  { path \in PathsOf(node) : IsNamed(NodeAt(node, path), name) }

\* the name the next iteration of the argument loop substitutes
NextName == ParamName(fnAst, argIdx)

\* the loop is about to substitute a parameter that exists
Substituting ==
  pc = "args" /\ argIdx <= Len(fnArgs) /\ ~ParamThrows(fnAst, argIdx)

\* C11: replaceIdentifier called on a block-like node whose own statement
\* list holds a variable declaration of `name`, or a for-loop whose
\* initializer declares `name`, returns the node as it is; and where a call
\* on a function returned, every such node of the function is in the result
\* as it was, every occurrence of `name` below it in place.
C11_ShadowedUnchanged ==
  /\ Substituting =>
       \A path \in PathsOf(fnAst) :
          Shadows(NodeAt(fnAst, path), NextName)
            => /\ ~replaceThrows(NextName, NodeAt(fnAst, path))
               /\ replaceIdentifier(NextName, fnArgs[argIdx], NodeAt(fnAst, path))
                     = NodeAt(fnAst, path)
  /\ argIdx > 1 =>
       \A path \in PathsOf(prevAst) :
          Shadows(NodeAt(prevAst, path), ParamName(prevAst, argIdx - 1))
            => /\ NodeAt(fnAst, path) = NodeAt(prevAst, path)
               /\ Occurrences(NodeAt(fnAst, path), ParamName(prevAst, argIdx - 1))
                    = Occurrences(NodeAt(prevAst, path), ParamName(prevAst, argIdx - 1))

\* a call returned on a function in which a for-loop declares the name in
\* a block that holds an occurrence of it in a nested block
C11_Witness ==
  /\ argIdx > 1
  /\ \E path \in PathsOf(prevAst) :
        LET node == NodeAt(prevAst, path)
            name == ParamName(prevAst, argIdx - 1)
        IN /\ Shadows(node, name)
           /\ \E k \in DOMAIN List(node, "body") :
                 /\ List(node, "body")[k].type = "ForStatement"
                 /\ IsObject(List(node, "body")[k], "init")
                 /\ DeclaresName(Get(List(node, "body")[k], "init"), name)
           /\ \E occ \in Occurrences(node, name) : Len(occ) > 3

(***************************************************************************)
(* Properties of the argument loop                                         *)
(***************************************************************************)
\* the function as the module defines it, the loop's starting point
Defined == exportedFunc["fn"]

ParamNames(ast) == [i \in DOMAIN List(ast, "params") |-> ParamName(ast, i)]

RECURSIVE Simultaneous(_, _, _, _)
\* One substitution of all the parameters in `live` at once: an identifier
\* named as a live parameter becomes that parameter's argument, which is not
\* looked into; a block that shadows a parameter takes it out of `live` for
\* what lies below.
Simultaneous(names, args, live, node) ==
  IF node.type = "Identifier" /\ \E i \in live : names[i] = Val(node, "name")
  THEN args[CHOOSE i \in live : names[i] = Val(node, "name")]
  ELSE LET below == { i \in live : ~Shadows(node, names[i]) }
       IN  [type  |-> node.type,
            props |-> [k \in DOMAIN node.props |->
               [node.props[k] EXCEPT !.nodes =
                  [j \in DOMAIN node.props[k].nodes |->
                     Simultaneous(names, args, below, node.props[k].nodes[j])]]]]

\* the loop ran to its end, over as many arguments as the function has
\* parameters
LoopDone ==
  /\ argIdx > Len(fnArgs)
  /\ Len(fnArgs) = Len(List(Defined, "params"))

\* C12: when the argument loop has substituted a0..an for p0..pn one after
\* the other, the body it made is the body that one simultaneous
\* substitution of all the parameters makes of the function as defined: no
\* identifier of an argument spliced in for pi is rewritten for a later pj.
C12_SequentialIsSimultaneous ==
  LoopDone =>
    StripRange(Get(fnAst, "body"))
      = StripRange(Get(Simultaneous(ParamNames(Defined), fnArgs,
                                    DOMAIN fnArgs, Defined), "body"))

(***************************************************************************)
(* Properties of renderFunction                                            *)
(***************************************************************************)
\* renderFunction was called: the argument loop ran to its end
RenderCalled == argIdx > Len(fnArgs) /\ pc \in {"rendered", "threw"}

\* C13: renderFunction, in either loader, returns for every function, an
\* empty body included; the text it returns is empty for a body without
\* statements, the text of the returned expression alone for a body whose
\* first statement is a return statement, and the text of the whole
\* statement list otherwise.
C13_RenderFunction ==
  RenderCalled =>
    /\ pc = "rendered"
    /\ source = IF FunctionBody(fnAst) = <<>> THEN <<>>
                ELSE IF Head(FunctionBody(fnAst)).type = "ReturnStatement"
                THEN generate(Get(Head(FunctionBody(fnAst)), "argument"))
                ELSE generate(Program(FunctionBody(fnAst)))

(***************************************************************************)
(* Properties of the export table: a name exported more than once          *)
(***************************************************************************)
\* What a top-level statement writes, in the order of the source: a name
\* with the definition written for it, or with the identifier it refers to.
Definition(at, name, exported, def) ==
  [at |-> at, name |-> name, exported |-> exported, refers |-> "", def |-> def]

Reference(at, name, target) ==
  [at |-> at, name |-> name, exported |-> TRUE, refers |-> target, def |-> NoAst]

RECURSIVE Concat(_)
Concat(seqs) == IF seqs = <<>> THEN <<>> ELSE Head(seqs) \o Concat(Tail(seqs))

Writes(at, node) ==
  IF node.type = "ExportNamedDeclaration"
  THEN IF TypeAt(node, "declaration") = "FunctionDeclaration"
       THEN <<Definition(at, NameAt(Get(node, "declaration"), "id"), TRUE,
                         Get(node, "declaration"))>>
       ELSE <<>>
  ELSE IF node.type = "FunctionDeclaration"
  THEN <<Definition(at, NameAt(node, "id"), FALSE, node)>>
  ELSE IF node.type = "VariableDeclaration"
  THEN Concat([k \in DOMAIN List(node, "declarations") |->
          IF TypeAt(List(node, "declarations")[k], "init") = "FunctionExpression"
          THEN <<Definition(at, NameAt(List(node, "declarations")[k], "id"), FALSE,
                            Get(List(node, "declarations")[k], "init"))>>
          ELSE <<>>])
  ELSE IF node.type = "ExportDefaultDeclaration" /\ TypeAt(node, "declaration") = "ClassDeclaration"
  THEN Concat([k \in DOMAIN ClassMembers(node) |->
          IF /\ ClassMembers(node)[k].type = "MethodDefinition"
             /\ Val(ClassMembers(node)[k], "static") = "true"
          THEN <<Definition(at, NameAt(ClassMembers(node)[k], "key"), TRUE,
                            Get(ClassMembers(node)[k], "value"))>>
          ELSE <<>>])
  ELSE IF node.type = "ExpressionStatement" /\ IsExportBag(node)
  THEN Concat([k \in DOMAIN BagProperties(node) |->
          IF TypeAt(BagProperties(node)[k], "value") = "FunctionExpression"
          THEN <<Definition(at, NameAt(BagProperties(node)[k], "key"), TRUE,
                            Get(BagProperties(node)[k], "value"))>>
          ELSE IF TypeAt(BagProperties(node)[k], "value") = "Identifier"
          THEN <<Reference(at, NameAt(BagProperties(node)[k], "key"),
                           NameAt(BagProperties(node)[k], "value"))>>
          ELSE <<>>])
  ELSE <<>>

\* the writes of the module, statement after statement
WritesOf(body) == Concat([k \in DOMAIN body |-> Writes(k, body[k])])

RECURSIVE Meaning(_, _)
\* [known, def]: the function definition that write i gives its name. A
\* reference gives the definition its identifier had when the statement was
\* reached, and nothing when no function was recorded under it.
Meaning(writes, i) ==
  IF writes[i].refers = "" THEN [known |-> TRUE, def |-> writes[i].def]
  ELSE LET earlier == { j \in 1 .. (i - 1) :
                          writes[j].name = writes[i].refers /\ Meaning(writes, j).known }
       IN  IF earlier = {} THEN [known |-> FALSE, def |-> NoAst]
           ELSE Meaning(writes, CHOOSE j \in earlier : \A l \in earlier : l <= j)

\* the writes that export `name`
Exporters(writes, name) ==
  { i \in DOMAIN writes :
      writes[i].name = name /\ writes[i].exported /\ Meaning(writes, i).known }

\* two top-level statements export the name
ExportedTwice(writes, name) ==
  \E i, j \in Exporters(writes, name) : writes[i].at # writes[j].at

LastExporter(writes, name) ==
  CHOOSE i \in Exporters(writes, name) : \A j \in Exporters(writes, name) : j <= i

ExportedNames(writes) == { writes[i].name : i \in DOMAIN writes }

\* C14: when two top-level statements of the module export a name, the
\* table returned maps the name to the definition that the later of them
\* gives it.
C14_LaterExportWins ==
  pc = "returned" =>
    \A name \in ExportedNames(WritesOf(module)) :
       ExportedTwice(WritesOf(module), name)
         => /\ name \in DOMAIN exportedFunc
            /\ exportedFunc[name]
                 = Meaning(WritesOf(module), LastExporter(WritesOf(module), name)).def

(***************************************************************************)
(* Properties of the dependencies                                          *)
(***************************************************************************)
\* the files whose contents are read for the macro sites of the text: for
\* each site, the path under the first extension that readFileSync accepts
FilesRead(src) ==
  { Loaded(src[h].v).path : h \in { s \in Sites(src) : Loaded(src[s].v).found } }

\* C15: every path passed to addDependency is the path of a file that was
\* read for a site of the source, extension included; no path that was not
\* read is registered.
C15_DependencyIsFileRead == deps \subseteq FilesRead(input)

=============================================================================
